---------------------------- MODULE Spec2Model ----------------------------
(***************************************************************************)
(* Model of the smart-pointer demo crate: s4_refcell.rs (RefCell) and      *)
(* s5_rc.rs (Rc) as the source stands (specification Spec), and            *)
(* s3_cell.rs (Cell) (specification SpecCell); the node graphs of          *)
(* s5_rc.rs std_rc_demo, which are built from std::rc::Rc and Weak         *)
(* (specification SpecRc); LimitTracker of s4_refcell.rs with its two      *)
(* mock messengers (specification SpecTracker).                            *)
(*                                                                         *)
(* A single thread of control (the types are not thread-safe) creates      *)
(* RefCell objects and calls borrow, borrow_mut and Rc::new.  Each call   *)
(* is recorded in hist with the result the code produces.  A panic is     *)
(* recorded as the outcome of the call that raised it; the caller is a    *)
(* harness that catches the unwind (as the test runner does for every     *)
(* #[test]) and may go on to make further calls on the same objects.      *)
(***************************************************************************)
EXTENDS Integers, Sequences, FiniteSets

\* ---- bounds ----------------------------------------------------------
MaxVal == 2
MaxCells == 2
MaxCalls == 4
NumCells == 3
MaxCount == 2
MaxQuota == 10
MaxSets == 2

Values == 0..MaxVal

\* stands where a call takes or returns no value
NoVal == MaxVal + 1

\* ---- s4_refcell.rs ---------------------------------------------------

\* the struct's only field; it carries no data at run time
PhantomData == "PhantomData"

\* todo!(): panics with the message "not yet implemented"
todo == [kind |-> "panic", msg |-> "not yet implemented"]

\* RefCell::new(value): the value is dropped, the struct keeps _phantom only
RefCell_new(value) == [phantom |-> PhantomData]

\* RefCell::borrow(&self) -> Option<&T>
RefCell_borrow_some(self) == [kind |-> "Some", val |-> 0]
RefCell_borrow(self) == todo

\* RefCell::borrow_mut(&self) -> Option<&mut T>
RefCell_borrow_mut(self) == todo

\* ---- s5_rc.rs --------------------------------------------------------

\* Rc::new(value) -> Self
Rc_new(value) == todo

\* Rc::strong_count(&self) -> usize
Rc_strong_count(self) == todo

\* ---- s3_cell.rs ------------------------------------------------------

\* Cell::new(value): Cell { inner: UnsafeCell::new(value) }
Cell_new(value) == [inner |-> value]

\* Cell::get(&self) -> T: a copy of the content
Cell_get(self) == self.inner

\* Cell::replace(&self, value) -> T: mem::replace stores value and returns
\* the old content; cell is the cell afterwards, ret the value returned
Cell_replace_ret_new(self, value) == [cell |-> [inner |-> value], ret |-> value]
Cell_replace(self, value) == [cell |-> [inner |-> value], ret |-> self.inner]

\* Cell::set(&self, value): replace, the old content is dropped
Cell_set_no_store(self, value) == self
Cell_set(self, value) == Cell_replace(self, value).cell

\* <i32 as Default>::default()
Default == 0

\* Cell::take(&self) -> T: replace by Default::default()
Cell_take_keep(self) == [cell |-> self, ret |-> self.inner]
Cell_take(self) == Cell_replace(self, Default)

\* Cell::swap(&self, other): nothing if both are the same cell (ptr::eq),
\* else ptr::swap of the two contents; mem maps each cell to its record
Cell_swap_copy(mem, self, other) ==
    IF self = other THEN mem
    ELSE [mem EXCEPT ![self] = mem[other]]
Cell_swap_take(mem, self, other) ==
    [[mem EXCEPT ![other] = Cell_new(Default)] EXCEPT ![self] = mem[other]]
Cell_swap(mem, self, other) ==
    IF self = other THEN mem
    ELSE [mem EXCEPT ![self] = mem[other], ![other] = mem[self]]

\* Cell::into_inner(self) -> T: UnsafeCell::into_inner, the content
Cell_into_inner_default(self) == Default
Cell_into_inner(self) == self.inner

\* an address that is the storage of no cell
NoCell == 0

\* Cell::as_ptr(&self) -> *mut T: UnsafeCell::get, the address of the
\* content; a cell is identified by the address of its content
Cell_as_ptr_temp(self) == NoCell
Cell_as_ptr(self) == self

\* Cell::get_mut(&mut self) -> &mut T: UnsafeCell::get_mut, a reference to
\* the content
Cell_get_mut(self) == self

\* unsafe { ptr.write(v) }, *ptr = v: the store into the place p
ptr_write(mem, p, v) ==
    IF p \in DOMAIN mem THEN [mem EXCEPT ![p] = [inner |-> v]] ELSE mem

\* ---- state -----------------------------------------------------------
VARIABLES
    refcells,   \* the RefCell objects created so far, in creation order
    moved,      \* the cells that were moved into a call of Rc::new
    hist,       \* the calls made so far, each with its result
    cellmem,    \* the Cell<i32> objects, by identity
    last,       \* the last call made on a Cell, with the cells before it
    gone,       \* the Cell bindings that are moved out of (into_inner)
    tracker,    \* the LimitTracker: value and max
    mock,       \* the MockMessenger the tracker refers to
    setlog,     \* the set_value calls made, each with the messages it sent
    heap,       \* std_rc_demo: the allocation of each node, with its counters
    stack,      \* std_rc_demo: the handles held by local variables, per node
    up,         \* std_rc_demo: the upgrade just made and what it returned
    fault       \* std_rc_demo: the operation that aborted the process, or NoFault

vars == <<refcells, moved, hist, cellmem, last, gone, heap, stack, up, fault,
          tracker, mock, setlog>>

\* the variables of s4_refcell.rs / s5_rc.rs and those of s3_cell.rs
refcellVars == <<refcells, moved, hist>>
cellVars == <<cellmem, last, gone>>
trackVars == <<tracker, mock, setlog>>
rcVars == <<heap, stack, up, fault>>

CellIds == 1..NumCells
NoCall == [op |-> "none", a |-> 0, b |-> 0, arg |-> NoVal, ret |-> NoVal,
           old |-> <<>>, old2 |-> <<>>]

\* the cells the caller can still name
Cells == (1..Len(refcells)) \ moved

\* what a caller can tell from the result of a call
IsSome(r) == r.kind = "Some"
IsPanic(r) == r.kind = "panic"
IsRc(r) == r.kind = "Rc"

\* the fields a test reads from a RefCell (rf.state.get(), *rf.inner.get());
\* a field the struct does not have reads as Absent
Absent == [tag |-> "absent"]
BorrowStateOf(rc) == IF "state" \in DOMAIN rc THEN rc.state ELSE Absent
InnerOf(rc) == IF "inner" \in DOMAIN rc THEN rc.inner ELSE Absent

\* one call record: operation, cell index (0: none), argument, result, the
\* value the caller reads through the returned reference (if any), and the
\* cell as it is when the call is over
Call(op, cell, arg, out, after) ==
    [op |-> op, cell |-> cell, arg |-> arg, out |-> out,
     rd |-> IF IsSome(out) THEN out.val ELSE NoVal,
     after |-> after]

\* ---- s5_rc.rs, mod std_rc_demo: std::rc::Rc and std::rc::Weak ---------

\* the three nodes of rc_weak_demo and of rc_cycle_demo
Nodes == {"a", "b", "c"}
None == "None"

\* the allocation of a node: st is "unalloc" before Rc::new, "live" while the
\* value is present, "dead" once the value is destroyed and the allocation
\* is kept for its Weak handles, "freed" once the allocation is released;
\* next and head are the fields of the Node value (Option<Rc>, Option<Weak>),
\* and once the value is destroyed they tell what it held at that moment
Unalloc == [st |-> "unalloc", strong |-> 0, weak |-> 0, next |-> None, head |-> None]

\* Rc::new(RefCell::new(Node { next: None, head: None }))
RcBox_new == [st |-> "live", strong |-> 1, weak |-> 0, next |-> None, head |-> None]

\* the result of an increment that would pass the largest count
Abort == [st |-> "abort"]

\* the strong count goes up by one (Rc::clone, Weak::upgrade)
inc_strong_wrapping(b) == [b EXCEPT !.strong = (@ + 1) % (MaxCount + 1)]
inc_strong(b) ==
    IF b.strong = MaxCount THEN Abort ELSE [b EXCEPT !.strong = @ + 1]

\* the weak count goes up by one (Rc::downgrade)
inc_weak_none(b) == b
inc_weak(b) ==
    IF b.weak = MaxCount THEN Abort ELSE [b EXCEPT !.weak = @ + 1]

\* Weak::upgrade: a new Rc if a strong handle exists, None otherwise
Weak_upgrade_always(b) == [res |-> "Some", box |-> inc_strong(b)]
Weak_upgrade(b) ==
    IF b.strong > 0 THEN [res |-> "Some", box |-> inc_strong(b)]
    ELSE [res |-> "None", box |-> b]

\* drop of a Weak handle of node n: the allocation is released when no
\* handle of either kind is left
Weak_drop_frees(h, n) ==
    LET w == h[n].weak - 1
    IN  [h EXCEPT ![n].weak = w,
                  ![n].st = IF w = 0 THEN "freed" ELSE @]
Weak_drop(h, n) ==
    LET w == h[n].weak - 1
    IN  [h EXCEPT ![n].weak = w,
                  ![n].st = IF w = 0 /\ h[n].strong = 0 THEN "freed" ELSE @]

\* the Rc handle a value holds in its next field, dropped by the value's
\* own destructor when the value is destroyed in place
value_next_leaked(b) == None
value_next(b) == b.next

\* the test a drop of an Rc makes on the strong count it has decremented
no_owner_left_early(s) == s <= 1
no_owner_left(s) == s = 0

\* drop of an Rc handle of node n: at strong = 0 the value is destroyed in
\* place, which drops the handles in its fields in turn, and the allocation
\* is released unless Weak handles remain
RECURSIVE Rc_drop(_, _)
Rc_drop(h, n) ==
    LET s == h[n].strong - 1
        h1 == [h EXCEPT ![n].strong = s]
    IN  IF ~no_owner_left(s) THEN h1
        ELSE LET m == value_next(h[n])
                 w == h[n].head
                 h2 == [h1 EXCEPT ![n].st = "dead"]
                 h3 == IF m = None THEN h2 ELSE Rc_drop(h2, m)
                 h4 == IF w = None THEN h3 ELSE Weak_drop(h3, w)
             IN  [h4 EXCEPT ![n].st = IF h4[n].weak = 0 THEN "freed" ELSE @]

NoUpgrade == [via |-> "none", node |-> None, res |-> None, before |-> 0]
NoFault == [op |-> "none", node |-> None]

\* no node graph is built
RcIdle ==
    /\ heap = [n \in Nodes |-> Unalloc]
    /\ stack = [n \in Nodes |-> [rc |-> 0, weak |-> 0]]
    /\ up = NoUpgrade
    /\ fault = NoFault

\* ---- s4_refcell.rs, mod refcell_usecase: LimitTracker ----------------

\* the quota and the value of the tests it_sends_an_over_75_percent_...
TestMax == 100
TestValue == 80

\* the values given as max to LimitTracker::new and as value to set_value
Quotas == (0..MaxQuota) \cup {TestMax}
Usages == (0..(MaxQuota + 1)) \cup {TestValue}

Error == "Error: You are over your quota!"
Urgent == "Urgent warning: You've used up over 90% of your quota!"
Warning == "Warning: You've used up over 75% of your quota!"

\* failed_mocker_tests::MockMessenger::new / tests::MockMessenger::new;
\* kind tells the two structs apart
MockMessenger_new(kind) == [kind |-> kind, sent_messages |-> <<>>]

\* failed_mocker_tests::MockMessenger::send: the body is empty (the push is
\* commented out, &self cannot be changed)
FailedMock_send(self, message) == self

\* tests::MockMessenger::send: sent_messages.borrow_mut().push(message)
Mock_send(self, message) ==
    [self EXCEPT !.sent_messages = Append(@, message)]

\* Messenger::send, by the type of the messenger
Messenger_send(self, message) ==
    IF self.kind = "plain" THEN FailedMock_send(self, message)
    ELSE Mock_send(self, message)

\* LimitTracker::new(messenger, max)
LimitTracker_new(max) == [value |-> 0, max |-> max]

\* (value as f64) / (max as f64) >= num / den, for the values of the model:
\* x / 0.0 is infinite for x > 0, and 0.0 / 0.0 is no number and compares
\* false with everything
percentage_ge(value, max, num, den) ==
    IF max = 0 THEN value > 0 ELSE value * den >= num * max

\* LimitTracker::set_value: the tracker afterwards and the messages given to
\* messenger.send, in order
LimitTracker_set_value_low_first(self, value) ==
    [self |-> [self EXCEPT !.value = value],
     sends |-> IF percentage_ge(value, self.max, 3, 4) THEN <<Warning>>
               ELSE IF percentage_ge(value, self.max, 9, 10) THEN <<Urgent>>
               ELSE IF percentage_ge(value, self.max, 1, 1) THEN <<Error>>
               ELSE <<>>]
LimitTracker_set_value(self, value) ==
    [self |-> [self EXCEPT !.value = value],
     sends |-> IF percentage_ge(value, self.max, 1, 1) THEN <<Error>>
               ELSE IF percentage_ge(value, self.max, 9, 10) THEN <<Urgent>>
               ELSE IF percentage_ge(value, self.max, 3, 4) THEN <<Warning>>
               ELSE <<>>]

\* the messenger after the sends of one set_value call
RECURSIVE SendAll(_, _)
SendAll(m, msgs) ==
    IF msgs = <<>> THEN m
    ELSE SendAll(Messenger_send(m, Head(msgs)), Tail(msgs))

\* no tracker is in use
TrackIdle ==
    /\ tracker = LimitTracker_new(0)
    /\ mock = MockMessenger_new("refcell")
    /\ setlog = <<>>

Init ==
    /\ refcells = <<>>
    /\ moved = {}
    /\ hist = <<>>
    /\ cellmem = [k \in CellIds |-> Cell_new(Default)]
    /\ last = NoCall
    /\ gone = {}
    /\ RcIdle
    /\ TrackIdle

\* let c = RefCell::new(v);
NewRefCell(v) ==
    /\ Len(refcells) < MaxCells
    /\ Len(hist) < MaxCalls
    /\ refcells' = Append(refcells, RefCell_new(v))
    /\ hist' = Append(hist, Call("RefCell::new", Len(refcells) + 1, v,
                                 [kind |-> "RefCell"], RefCell_new(v)))
    /\ UNCHANGED <<moved, cellVars, trackVars, rcVars>>

\* let r = c.borrow();
Borrow(c) ==
    /\ Len(hist) < MaxCalls
    /\ hist' = Append(hist, Call("borrow", c, NoVal,
                                 RefCell_borrow(refcells[c]), refcells[c]))
    /\ UNCHANGED <<refcells, moved, cellVars, trackVars, rcVars>>

\* let mut r = c.borrow_mut(); *r = v;
\* (the write happens only if a reference is returned)
BorrowMut(c, v) ==
    /\ Len(hist) < MaxCalls
    /\ hist' = Append(hist, Call("borrow_mut", c, v,
                                 RefCell_borrow_mut(refcells[c]), refcells[c]))
    /\ UNCHANGED <<refcells, moved, cellVars, trackVars, rcVars>>

\* the block that holds the results of the borrows of c ends: { ... }
\* An Option<&T> has no destructor, so leaving the block runs no code.
EndScope(c) ==
    /\ Len(hist) < MaxCalls
    /\ hist' = Append(hist, Call("end_scope", c, NoVal,
                                 [kind |-> "unit"], refcells[c]))
    /\ UNCHANGED <<refcells, moved, cellVars, trackVars, rcVars>>

\* let rc = Rc::new(v);
NewRc(v) ==
    /\ Len(hist) < MaxCalls
    /\ hist' = Append(hist, Call("Rc::new", 0, v, Rc_new(v), Absent))
    /\ UNCHANGED <<refcells, moved, cellVars, trackVars, rcVars>>

\* let rc = Rc::new(c);   the RefCell c is moved into the call
NewRcOfCell(c) ==
    /\ Len(hist) < MaxCalls
    /\ moved' = moved \cup {c}
    /\ hist' = Append(hist, Call("Rc::new", c, NoVal,
                                 Rc_new(refcells[c]), refcells[c]))
    /\ UNCHANGED <<refcells, cellVars, trackVars, rcVars>>

Next ==
    \/ \E v \in Values : NewRefCell(v)
    \/ \E c \in Cells : Borrow(c)
    \/ \E c \in Cells, v \in Values : BorrowMut(c, v)
    \/ \E c \in Cells : EndScope(c)
    \/ \E v \in Values : NewRc(v)
    \/ \E c \in Cells : NewRcOfCell(c)

Spec == Init /\ [][Next]_vars

\* ---- s3_cell.rs: the calls on Cell<i32> --------------------------------

\* let c1 = Cell::new(v1); let c2 = Cell::new(v2);
InitCell ==
    /\ refcells = <<>>
    /\ moved = {}
    /\ hist = <<>>
    /\ cellmem \in [CellIds -> {Cell_new(v) : v \in Values}]
    /\ last = NoCall
    /\ gone = {}
    /\ RcIdle
    /\ TrackIdle

\* the record of a call; old2 is set by a swap only
CellCall(op, a, b, arg, ret) ==
    [op |-> op, a |-> a, b |-> b, arg |-> arg, ret |-> ret, old |-> cellmem,
     old2 |-> <<>>]

\* let c = Cell::new(v);   the binding c is free again after into_inner
CellNew(c, v) ==
    /\ c \in gone
    /\ cellmem' = [cellmem EXCEPT ![c] = Cell_new(v)]
    /\ gone' = gone \ {c}
    /\ last' = CellCall("new", c, 0, v, NoVal)
    /\ UNCHANGED <<refcellVars, rcVars, trackVars>>

\* c.get()
CellGet(c) ==
    /\ c \notin gone
    /\ last' = CellCall("get", c, 0, NoVal, Cell_get(cellmem[c]))
    /\ UNCHANGED <<cellmem, gone, refcellVars, rcVars, trackVars>>

\* c.set(v)
CellSet(c, v) ==
    /\ c \notin gone
    /\ cellmem' = [cellmem EXCEPT ![c] = Cell_set(cellmem[c], v)]
    /\ last' = CellCall("set", c, 0, v, NoVal)
    /\ UNCHANGED <<gone, refcellVars, rcVars, trackVars>>

\* c.replace(v)
CellReplace(c, v) ==
    /\ c \notin gone
    /\ cellmem' = [cellmem EXCEPT ![c] = Cell_replace(cellmem[c], v).cell]
    /\ last' = CellCall("replace", c, 0, v, Cell_replace(cellmem[c], v).ret)
    /\ UNCHANGED <<gone, refcellVars, rcVars, trackVars>>

\* c.take()
CellTake(c) ==
    /\ c \notin gone
    /\ cellmem' = [cellmem EXCEPT ![c] = Cell_take(cellmem[c]).cell]
    /\ last' = CellCall("take", c, 0, NoVal, Cell_take(cellmem[c]).ret)
    /\ UNCHANGED <<gone, refcellVars, rcVars, trackVars>>

\* a.swap(&b); old2 keeps the cells as they were before two swaps in a row
\* of the same a and b
CellSwap(a, b) ==
    /\ a \notin gone /\ b \notin gone
    /\ cellmem' = Cell_swap(cellmem, a, b)
    /\ last' = [CellCall("swap", a, b, NoVal, NoVal) EXCEPT
                   !.old2 = IF last.op = "swap" /\ last.a = a /\ last.b = b
                            THEN last.old ELSE <<>>]
    /\ UNCHANGED <<gone, refcellVars, rcVars, trackVars>>

\* c.into_inner(): c is moved into the call; its storage is given up
CellIntoInner(c) ==
    /\ c \notin gone
    /\ gone' = gone \cup {c}
    /\ cellmem' = [cellmem EXCEPT ![c] = Cell_new(Default)]
    /\ last' = CellCall("into_inner", c, 0, NoVal, Cell_into_inner(cellmem[c]))
    /\ UNCHANGED <<refcellVars, rcVars, trackVars>>

\* let ptr = c.as_ptr(); unsafe { ptr.write(v) };
CellAsPtrWrite(c, v) ==
    /\ c \notin gone
    /\ cellmem' = ptr_write(cellmem, Cell_as_ptr(c), v)
    /\ last' = CellCall("as_ptr", c, 0, v, NoVal)
    /\ UNCHANGED <<gone, refcellVars, rcVars, trackVars>>

\* *c.get_mut() = v;
CellGetMutWrite(c, v) ==
    /\ c \notin gone
    /\ cellmem' = ptr_write(cellmem, Cell_get_mut(c), v)
    /\ last' = CellCall("get_mut", c, 0, v, NoVal)
    /\ UNCHANGED <<gone, refcellVars, rcVars, trackVars>>

NextCell ==
    \/ \E c \in CellIds, v \in Values : CellNew(c, v)
    \/ \E c \in CellIds : CellGet(c)
    \/ \E c \in CellIds, v \in Values : CellSet(c, v)
    \/ \E c \in CellIds, v \in Values : CellReplace(c, v)
    \/ \E c \in CellIds : CellTake(c)
    \/ \E a \in CellIds, b \in CellIds : CellSwap(a, b)
    \/ \E c \in CellIds : CellIntoInner(c)
    \/ \E c \in CellIds, v \in Values : CellAsPtrWrite(c, v)
    \/ \E c \in CellIds, v \in Values : CellGetMutWrite(c, v)

SpecCell == InitCell /\ [][NextCell]_vars

\* ---- s5_rc.rs, mod std_rc_demo: building and dropping node graphs ------

InitRc ==
    /\ refcells = <<>>
    /\ moved = {}
    /\ hist = <<>>
    /\ cellmem = [k \in CellIds |-> Cell_new(Default)]
    /\ last = NoCall
    /\ gone = {}
    /\ RcIdle
    /\ TrackIdle

Running == fault = NoFault

\* the links the demos make: b.next = a, c.next = b, and to close the cycle
\* a.next = c (rc_cycle_demo) or a.head = c (rc_weak_demo)
NextEdges == {<<"b", "a">>, <<"c", "b">>, <<"a", "c">>}
HeadEdges == {<<"a", "c">>}

\* the demos create a, then b, then c
Earlier(n) == IF n = "a" THEN {} ELSE IF n = "b" THEN {"a"} ELSE {"a", "b"}
Held(n) == stack[n].rc > 0

\* the process aborts in operation op on node n; nothing else changes
AbortIn(op, n) ==
    /\ fault' = [op |-> op, node |-> n]
    /\ up' = NoUpgrade
    /\ UNCHANGED <<heap, stack>>

\* let n = Rc::new(RefCell::new(Node { .., next: None, head: None }));
NewNode(n) ==
    /\ Running
    /\ heap[n].st = "unalloc"
    /\ \A m \in Earlier(n) : heap[m].st # "unalloc"
    /\ heap' = [heap EXCEPT ![n] = RcBox_new]
    /\ stack' = [stack EXCEPT ![n].rc = 1]
    /\ up' = NoUpgrade
    /\ UNCHANGED <<fault, refcellVars, cellVars, trackVars>>

\* the link made without the clone: the field is set, no count is raised
LinkNext_uncounted(n, m) ==
    /\ Running
    /\ Held(n) /\ Held(m) /\ heap[n].next = None
    /\ heap' = [heap EXCEPT ![n].next = m]
    /\ up' = NoUpgrade
    /\ UNCHANGED <<stack, fault, refcellVars, cellVars, trackVars>>

\* n.borrow_mut().next = Some(Rc::clone(&m));
LinkNext(n, m) ==
    /\ Running
    /\ Held(n) /\ Held(m) /\ heap[n].next = None
    /\ IF inc_strong(heap[m]) = Abort
       THEN AbortIn("clone", m)
       ELSE /\ heap' = [[heap EXCEPT ![m] = inc_strong(heap[m])]
                              EXCEPT ![n].next = m]
            /\ up' = NoUpgrade
            /\ UNCHANGED <<stack, fault>>
    /\ UNCHANGED <<refcellVars, cellVars, trackVars>>

\* the weak edge counted as an owner: the strong count is raised instead
LinkHead_counts_strong(n, m) ==
    /\ Running
    /\ Held(n) /\ Held(m) /\ heap[n].head = None
    /\ IF inc_strong(heap[m]) = Abort
       THEN AbortIn("downgrade", m)
       ELSE /\ heap' = [[heap EXCEPT ![m] = inc_strong(heap[m])]
                              EXCEPT ![n].head = m]
            /\ up' = NoUpgrade
            /\ UNCHANGED <<stack, fault>>
    /\ UNCHANGED <<refcellVars, cellVars, trackVars>>

\* n.borrow_mut().head = Some(Rc::downgrade(&m));
LinkHead(n, m) ==
    /\ Running
    /\ Held(n) /\ Held(m) /\ heap[n].head = None
    /\ IF inc_weak(heap[m]) = Abort
       THEN AbortIn("downgrade", m)
       ELSE /\ heap' = [[heap EXCEPT ![m] = inc_weak(heap[m])]
                              EXCEPT ![n].head = m]
            /\ up' = NoUpgrade
            /\ UNCHANGED <<stack, fault>>
    /\ UNCHANGED <<refcellVars, cellVars, trackVars>>

\* let n2 = Rc::clone(&n);
CloneLocal(n) ==
    /\ Running
    /\ Held(n)
    /\ IF inc_strong(heap[n]) = Abort
       THEN AbortIn("clone", n)
       ELSE /\ heap' = [heap EXCEPT ![n] = inc_strong(heap[n])]
            /\ stack' = [stack EXCEPT ![n].rc = @ + 1]
            /\ up' = NoUpgrade
            /\ UNCHANGED fault
    /\ UNCHANGED <<refcellVars, cellVars, trackVars>>

\* let w = Rc::downgrade(&n);
DowngradeLocal(n) ==
    /\ Running
    /\ Held(n)
    /\ IF inc_weak(heap[n]) = Abort
       THEN AbortIn("downgrade", n)
       ELSE /\ heap' = [heap EXCEPT ![n] = inc_weak(heap[n])]
            /\ stack' = [stack EXCEPT ![n].weak = @ + 1]
            /\ up' = NoUpgrade
            /\ UNCHANGED fault
    /\ UNCHANGED <<refcellVars, cellVars, trackVars>>

\* an upgrade of a Weak handle of node m, reached through via
Upgrade(via, m) ==
    LET r == Weak_upgrade(heap[m])
    IN  IF r.box = Abort
        THEN AbortIn("upgrade", m)
        ELSE /\ heap' = [heap EXCEPT ![m] = r.box]
             /\ stack' = [stack EXCEPT ![m].rc = IF r.res = "Some" THEN @ + 1 ELSE @]
             /\ up' = [via |-> via, node |-> m, res |-> r.res,
                       before |-> heap[m].strong]
             /\ UNCHANGED fault

\* let r = w.upgrade();   w a local Weak handle of node m
UpgradeLocal(m) ==
    /\ Running
    /\ stack[m].weak > 0
    /\ Upgrade("local", m)
    /\ UNCHANGED <<refcellVars, cellVars, trackVars>>

\* let r = n.borrow().head.as_ref().unwrap().upgrade();
UpgradeHead(n) ==
    /\ Running
    /\ Held(n) /\ heap[n].head # None
    /\ Upgrade("head", heap[n].head)
    /\ UNCHANGED <<refcellVars, cellVars, trackVars>>

\* a local Rc handle of node n leaves its scope
DropLocal(n) ==
    /\ Running
    /\ Held(n)
    /\ stack' = [stack EXCEPT ![n].rc = @ - 1]
    /\ heap' = Rc_drop(heap, n)
    /\ up' = NoUpgrade
    /\ UNCHANGED <<fault, refcellVars, cellVars, trackVars>>

\* a local Weak handle of node n leaves its scope
DropLocalWeak(n) ==
    /\ Running
    /\ stack[n].weak > 0
    /\ stack' = [stack EXCEPT ![n].weak = @ - 1]
    /\ heap' = Weak_drop(heap, n)
    /\ up' = NoUpgrade
    /\ UNCHANGED <<fault, refcellVars, cellVars, trackVars>>

NextRc ==
    \/ \E n \in Nodes : NewNode(n)
    \/ \E e \in NextEdges : LinkNext(e[1], e[2])
    \/ \E e \in HeadEdges : LinkHead(e[1], e[2])
    \/ \E n \in Nodes : CloneLocal(n)
    \/ \E n \in Nodes : DowngradeLocal(n)
    \/ \E n \in Nodes : UpgradeLocal(n)
    \/ \E n \in Nodes : UpgradeHead(n)
    \/ \E n \in Nodes : DropLocal(n)
    \/ \E n \in Nodes : DropLocalWeak(n)

SpecRc == InitRc /\ [][NextRc]_vars

\* ---- LimitTracker with a mock messenger ------------------------------

\* let mock_messenger = MockMessenger::new();
\* let mut limit_tracker = LimitTracker::new(&mock_messenger, max);
InitTracker ==
    /\ refcells = <<>>
    /\ moved = {}
    /\ hist = <<>>
    /\ cellmem = [k \in CellIds |-> Cell_new(Default)]
    /\ last = NoCall
    /\ gone = {}
    /\ RcIdle
    /\ \E kind \in {"plain", "refcell"} : mock = MockMessenger_new(kind)
    /\ \E max \in Quotas : tracker = LimitTracker_new(max)
    /\ setlog = <<>>

\* limit_tracker.set_value(v);
SetValue(v) ==
    /\ Len(setlog) < MaxSets
    /\ LET r == LimitTracker_set_value(tracker, v)
       IN  /\ tracker' = r.self
           /\ mock' = SendAll(mock, r.sends)
           /\ setlog' = Append(setlog, [value |-> v, sends |-> r.sends])
    /\ UNCHANGED <<refcellVars, cellVars, rcVars>>

NextTracker == \E v \in Usages : SetValue(v)

SpecTracker == InitTracker /\ [][NextTracker]_vars


\* ---- reading the call history -----------------------------------------

BorrowOps == {"borrow", "borrow_mut"}

\* the error kinds, by the message of the fault that reports them
AlreadyBorrowed == "already borrowed"
AlreadyExclusivelyBorrowed == "already mutably borrowed"
FailsWith(r, m) == IsPanic(r) /\ r.msg = m

\* the calls on cell c made before call i
Before(i, c) == {j \in 1..(i - 1) : hist[j].cell = c}

\* the last scope end of c before call i (0: none)
LastEnd(i, c) ==
    LET E == {j \in Before(i, c) : hist[j].op = "end_scope"}
    IN  IF E = {} THEN 0 ELSE CHOOSE j \in E : \A k \in E : k <= j

\* the borrow attempts on c in the scope that is open when call i is made
Episode(i, c) ==
    {j \in Before(i, c) : j > LastEnd(i, c) /\ hist[j].op \in BorrowOps}

\* the references handed out in that scope, all still held at call i
SharedGuards(i, c) ==
    {j \in Episode(i, c) : hist[j].op = "borrow" /\ IsSome(hist[j].out)}
ExclGuards(i, c) ==
    {j \in Episode(i, c) : hist[j].op = "borrow_mut" /\ IsSome(hist[j].out)}

Now == Len(hist) + 1

Unused == [tag |-> "Unused"]
Shared(n) == [tag |-> "Shared", count |-> n]
Exclusive == [tag |-> "Exclusive"]

\* ---- claims -----------------------------------------------------------

\* C1: in every reachable state each cell has no live guard and records
\* Unused, or n >= 1 live shared guards and no exclusive one and records
\* Shared(n), or exactly one live exclusive guard and no shared one and
\* records Exclusive.
C1_BorrowStateLegal ==
    \A c \in Cells :
        LET n == Cardinality(SharedGuards(Now, c))
            x == Cardinality(ExclGuards(Now, c))
            s == BorrowStateOf(refcells[c])
        IN  \/ n = 0 /\ x = 0 /\ s = Unused
            \/ n >= 1 /\ x = 0 /\ s = Shared(n)
            \/ n = 0 /\ x = 1 /\ s = Exclusive

\* C2: a borrow_mut made while a guard of the cell is live fails with
\* AlreadyBorrowed and hands out no exclusive guard; in particular a
\* borrow_mut that follows a borrow_mut of the same scope does.
C2_BorrowMutWhileBorrowedFails ==
    \A i \in DOMAIN hist :
        LET c == hist[i].cell
        IN  hist[i].op = "borrow_mut"
            /\ \/ SharedGuards(i, c) \cup ExclGuards(i, c) # {}
               \/ \E j \in Episode(i, c) : hist[j].op = "borrow_mut"
            => FailsWith(hist[i].out, AlreadyBorrowed) /\ ~IsSome(hist[i].out)

\* C3: a borrow made while the exclusive guard of the cell is live (the
\* open scope began with a borrow_mut) fails with AlreadyExclusivelyBorrowed,
\* message "already mutably borrowed", and hands out no shared guard.
C3_BorrowWhileExclusiveFails ==
    \A i \in DOMAIN hist :
        LET c == hist[i].cell
            ep == Episode(i, c)
        IN  hist[i].op = "borrow"
            /\ \/ ExclGuards(i, c) # {}
               \/ ep # {} /\ hist[CHOOSE j \in ep : \A k \in ep : j <= k].op = "borrow_mut"
            => FailsWith(hist[i].out, AlreadyExclusivelyBorrowed)
               /\ ~IsSome(hist[i].out)

\* C4: a borrow of a cell that is Unused or Shared(n) (the open scope holds
\* only borrows, k of them) succeeds and leaves the cell Shared(k + 1).
C4_BorrowSucceeds ==
    \A i \in DOMAIN hist :
        LET c == hist[i].cell
            ep == Episode(i, c)
        IN  hist[i].op = "borrow" /\ (\A j \in ep : hist[j].op = "borrow")
            => /\ IsSome(hist[i].out)
               /\ BorrowStateOf(hist[i].after) = Shared(Cardinality(ep) + 1)

\* C5: once the scope holding every guard of an episode has ended, the cell
\* is Unused again and the next borrow_mut succeeds and leaves it Exclusive.
C5_BorrowMutAfterRelease ==
    \A i \in DOMAIN hist :
        LET c == hist[i].cell
            e == LastEnd(i, c)
        IN  /\ hist[i].op = "borrow_mut"
            /\ e > 0 /\ Episode(e, c) # {} /\ Episode(i, c) = {}
            => /\ BorrowStateOf(hist[e].after) = Unused
               /\ IsSome(hist[i].out)
               /\ BorrowStateOf(hist[i].after) = Exclusive

\* C6: the end of a scope releases every guard handed out in it, one step
\* each (Shared(n) to Shared(n-1), Shared(1) or Exclusive to Unused), so a
\* scope in which the cell was borrowed leaves the cell Unused when it ends,
\* whatever way it is left.
C6_ScopeEndReleases ==
    \A i \in DOMAIN hist :
        LET c == hist[i].cell
        IN  hist[i].op = "end_scope" /\ Episode(i, c) # {}
            => BorrowStateOf(hist[i].after) = Unused

\* C7: next to the strict form, whose violation is a fatal fault, every
\* borrow can be attempted in a form that does not fault: in each state and
\* for each cell a borrow and a borrow_mut attempt that end without a panic
\* (a guard or a recoverable error value) are possible.
C7_TryFormsOffered ==
    \A c \in Cells : \A o \in BorrowOps :
        Len(hist) < MaxCalls
        => ENABLED (/\ Next
                    /\ hist'[Len(hist')].op = o
                    /\ hist'[Len(hist')].cell = c
                    /\ ~IsPanic(hist'[Len(hist')].out))

\* C8: a borrow_mut of an Unused cell (nothing borrowed in the open scope)
\* succeeds and leaves the cell Exclusive; a new cell is Unused and holds
\* the value passed to new, so this covers the first borrow_mut of a cell.
C8_BorrowMutUnusedSucceeds ==
    \A i \in DOMAIN hist :
        LET c == hist[i].cell
            n == CHOOSE j \in 1..i : hist[j].cell = c /\ hist[j].op = "RefCell::new"
        IN  hist[i].op = "borrow_mut" /\ Episode(i, c) = {}
            => /\ IsSome(hist[i].out)
               /\ BorrowStateOf(hist[i].after) = Exclusive
               /\ Before(i, c) = {n}
                  => /\ BorrowStateOf(hist[n].after) = Unused
                     /\ InnerOf(hist[n].after) = hist[n].arg

\* C9: a borrow made after the scope of a borrow_mut has ended reads the
\* value last written through that exclusive guard; a cell moved into
\* Rc::new is handed back inside an Rc through which it is reached.
C9_WriteThenRead ==
    \A j \in DOMAIN hist :
        LET c == hist[j].cell
            W == {i \in Before(j, c) : hist[i].op = "borrow_mut" /\ i < LastEnd(j, c)}
        IN  /\ hist[j].op = "borrow" /\ W # {} /\ Episode(j, c) = {}
               => /\ IsSome(hist[j].out)
                  /\ hist[j].rd = hist[CHOOSE i \in W : \A k \in W : k <= i].arg
            /\ hist[j].op = "Rc::new" /\ c # 0 => IsRc(hist[j].out)

\* C10: strong_count equals the number of live Rc handles of the block: each
\* Rc::new returns the one handle of a new block, whose strong_count is 1.
C10_StrongCountIsHandles ==
    \A i \in DOMAIN hist :
        hist[i].op = "Rc::new"
        => IsRc(hist[i].out) /\ hist[i].out.strong = 1

\* C18: whatever calls came before, a get() made right after set(v) returns v.
C18_GetAfterSet ==
    last.op = "set" => Cell_get(cellmem[last.a]) = last.arg

\* a set(v) that changed the content of its cell has just been made
C18_Witness ==
    /\ last.op = "set"
    /\ last.old[last.a].inner # last.arg
    /\ Cell_get(cellmem[last.a]) = last.arg

\* C19: replace(v) returns the content the cell had right before the call
\* and leaves the cell holding v.
C19_ReplaceReturnsOld ==
    last.op = "replace"
    => /\ last.ret = last.old[last.a].inner
       /\ cellmem[last.a].inner = last.arg

\* a replace(v) with v different from the old content has just been made
C19_Witness ==
    /\ last.op = "replace"
    /\ last.arg # last.old[last.a].inner
    /\ last.ret = last.old[last.a].inner

\* C20: take() returns the content the cell had right before the call and
\* leaves the cell holding the default value 0.
C20_TakeLeavesDefault ==
    last.op = "take"
    => /\ last.ret = last.old[last.a].inner
       /\ cellmem[last.a].inner = 0

\* a take() of a cell that held a value other than the default was made
C20_Witness ==
    /\ last.op = "take"
    /\ last.old[last.a].inner # 0
    /\ last.ret = last.old[last.a].inner
    /\ cellmem[last.a].inner = 0

-----------------------------------------------------------------------------
\* Handles of the node graph.  The fields of a node are handles only while
\* the node's value is present.

\* the Rc handles of node n: the locals and the next fields pointing at it
StrongHandles(n) ==
    stack[n].rc
    + Cardinality({m \in Nodes : heap[m].st = "live" /\ heap[m].next = n})

\* the Weak handles of node n: the locals and the head fields pointing at it
WeakHandles(n) ==
    stack[n].weak
    + Cardinality({m \in Nodes : heap[m].st = "live" /\ heap[m].head = n})

\* C11: the weak count of a block is the number of live Weak handles to it:
\* 0 after new, one more for every downgrade, one less for every Weak
\* handle dropped.
C11_WeakCountIsHandles ==
    \A n \in Nodes : heap[n].weak = WeakHandles(n)

\* two downgrades of c, none dropped: the head field of a and a local
C11_Witness ==
    /\ heap["a"].st = "live" /\ heap["a"].head = "c"
    /\ stack["c"].weak = 1
    /\ heap["c"].weak = 2

\* C12: an upgrade of a Weak handle of a block with strong > 0 returns a new
\* Rc and raises strong by one; with strong = 0 it returns None and changes
\* no counter; and once the last Rc of a block is dropped its strong count
\* stays 0, so every later upgrade returns None.
C12_UpgradeFollowsStrong ==
    [][/\ up'.via # "none" =>
            LET m == up'.node
            IN  IF heap[m].strong > 0
                THEN /\ up'.res = "Some"
                     /\ heap' = [heap EXCEPT ![m].strong = @ + 1]
                     /\ stack' = [stack EXCEPT ![m].rc = @ + 1]
                ELSE /\ up'.res = "None"
                     /\ heap' = heap
                     /\ stack' = stack
       /\ \A n \in Nodes :
            heap[n].st \in {"dead", "freed"} =>
                heap[n].strong = 0 /\ heap'[n].strong = 0]_vars

\* a local Weak handle is upgraded after the last Rc of its block is dropped
C12_Witness ==
    /\ up.via = "local" /\ up.res = "None"
    /\ heap[up.node].st = "dead"
    /\ StrongHandles(up.node) = 0

\* the phases of an allocation, in the order they are passed through
Phase(b) ==
    IF b.st = "unalloc" THEN 0
    ELSE IF b.st = "live" THEN 1
    ELSE IF b.st = "dead" THEN 2
    ELSE 3

\* C13: destruction is two-phase.  The value of a block is destroyed once,
\* at the step that takes strong to 0, whatever the weak count is; the block
\* is freed once, as soon as strong = 0 and weak = 0 both hold, and never
\* while a handle of either kind refers to it.
C13_TwoPhaseDestruction ==
    [][\A n \in Nodes :
        /\ Phase(heap'[n]) >= Phase(heap[n])
        /\ (heap[n].st = "live" /\ heap'[n].st # "live")
              <=> (heap[n].strong > 0 /\ heap'[n].strong = 0)
        /\ heap'[n].st = "freed"
              <=> (Phase(heap'[n]) > 0 /\ heap'[n].strong = 0 /\ heap'[n].weak = 0)
        /\ heap'[n].st = "freed"
              => (StrongHandles(n) = 0 /\ WeakHandles(n) = 0)']_vars

\* one block is kept without its value for a Weak handle, another is freed
C13_Witness ==
    \E n \in Nodes, m \in Nodes :
        /\ heap[n].st = "dead" /\ heap[n].strong = 0 /\ heap[n].weak > 0
        /\ heap[m].st = "freed"

\* C14: the value of a block is present exactly while its strong count is
\* above 0, which is exactly while an Rc handle of the block exists: no Rc
\* handle refers to a block whose value is destroyed.
C14_ValuePresentIffStrong ==
    \A n \in Nodes :
        /\ heap[n].st = "live" <=> heap[n].strong > 0
        /\ heap[n].strong > 0 <=> StrongHandles(n) > 0

\* a block with two Rc handles holds its value, while the value of a block
\* without Rc handles is destroyed
C14_Witness ==
    \E n \in Nodes, m \in Nodes :
        /\ StrongHandles(n) = 2 /\ heap[n].st = "live"
        /\ StrongHandles(m) = 0 /\ heap[m].st = "dead"

\* the node the next field of n owns, if the value of n is present
Succ(n) == IF n # None /\ heap[n].st = "live" THEN heap[n].next ELSE None

\* the node reached from n over k next fields
RECURSIVE Follow(_, _)
Follow(n, k) == IF k = 0 THEN n ELSE Follow(Succ(n), k - 1)

\* n lies on a cycle of next fields
OnStrongCycle(n) == \E k \in 1..Cardinality(Nodes) : Follow(n, k) = n

NoLocals == \A n \in Nodes : stack[n].rc = 0 /\ stack[n].weak = 0

\* C15: a node on a cycle made of Rc (next) edges only stays on it and never
\* reaches a strong count of 0, so its value is never destroyed, also after
\* every handle of the enclosing scope is dropped: the cycle leaks.
C15_StrongCycleLeaks ==
    [][\A n \in Nodes :
        OnStrongCycle(n) =>
            /\ heap[n].strong >= 1
            /\ (OnStrongCycle(n) /\ heap[n].strong >= 1 /\ heap[n].st = "live")']_vars

\* rc_cycle_demo after its scope has ended: no local is left and a, b and c
\* keep each other alive
C15_Witness ==
    /\ NoLocals
    /\ \A n \in Nodes :
         OnStrongCycle(n) /\ heap[n].strong = 1 /\ heap[n].st = "live"

\* C16: with the edge that would close the cycle held as a Weak handle, no
\* cycle of Rc edges exists, and once every handle of the enclosing scope is
\* dropped every node has a strong count of 0 and its value destroyed; an
\* upgrade over the weak edge made after the last Rc of its target is
\* dropped returns None.
C16_WeakLegReclaims ==
    /\ (NoLocals /\ \A n \in Nodes : ~OnStrongCycle(n)) =>
          \A n \in Nodes :
              heap[n].strong = 0 /\ heap[n].st \in {"unalloc", "freed"}
    /\ (up.via = "head" /\ up.before = 0) =>
          up.res = "None" /\ heap[up.node].strong = 0

\* rc_weak_demo after its scope has ended: c --> b --> a over next, a --> c
\* over head, and all three values destroyed
C16_Witness ==
    /\ NoLocals
    /\ heap["c"].next = "b" /\ heap["b"].next = "a"
    /\ heap["a"].next = None /\ heap["a"].head = "c"
    /\ \A n \in Nodes : heap[n].strong = 0 /\ heap[n].st = "freed"

\* C17: a clone, upgrade or downgrade that would take a count past the
\* largest count ends in a fault: the step changes no count and hands out no
\* handle, nothing runs after it, and no count ever wraps around: each stays
\* the number of handles, at most the largest count.
C17_OverflowIsFatal ==
    [][/\ fault = NoFault
       /\ \A n \in Nodes :
            /\ heap'[n].strong <= MaxCount /\ heap'[n].weak <= MaxCount
            /\ (heap[n].strong = StrongHandles(n))'
            /\ (heap[n].weak = WeakHandles(n))'
       /\ fault' # NoFault =>
            /\ heap' = heap /\ stack' = stack
            /\ \/ /\ fault'.op \in {"clone", "upgrade"}
                  /\ heap[fault'.node].strong = MaxCount
               \/ /\ fault'.op = "downgrade"
                  /\ heap[fault'.node].weak = MaxCount]_vars

\* a clone of a block whose strong count is the largest count has faulted
C17_Witness ==
    /\ fault.op = "clone"
    /\ heap[fault.node].strong = MaxCount
    /\ StrongHandles(fault.node) = MaxCount

\* C21: a.swap(b) on two distinct cells leaves a with the former content of
\* b and b with the former content of a; with a and b the same cell it
\* changes nothing; every other cell is as it was.
C21_SwapExchanges ==
    last.op = "swap" =>
        /\ cellmem[last.a] = last.old[last.b]
        /\ cellmem[last.b] = last.old[last.a]
        /\ last.a = last.b => cellmem = last.old
        /\ \A c \in CellIds \ {last.a, last.b} : cellmem[c] = last.old[c]

\* two distinct cells of different content were swapped while a third cell
\* held yet another content
C21_Witness ==
    /\ last.op = "swap" /\ last.a # last.b
    /\ last.old[last.a] # last.old[last.b]
    /\ \E c \in CellIds \ {last.a, last.b} :
          /\ cellmem[c] # cellmem[last.a] /\ cellmem[c] # cellmem[last.b]
          /\ cellmem[c] = last.old[c]

\* C22: two swaps of the same a and b in a row leave both cells (and all
\* the others) with the contents they had before the first; a swap of a
\* cell with itself leaves its content as it was.
C22_SwapTwiceRestores ==
    last.op = "swap" =>
        /\ last.old2 # <<>> => cellmem = last.old2
        /\ last.a = last.b => cellmem[last.a] = last.old[last.a]

\* the second of two swaps in a row of two distinct cells of different
\* content was made
C22_Witness ==
    /\ last.op = "swap" /\ last.a # last.b
    /\ last.old2 # <<>>
    /\ last.old2[last.a] # last.old2[last.b]
    /\ last.old # last.old2
    /\ cellmem = last.old2

\* C23: into_inner consumes the cell and returns the content the cell held
\* right before the call, whatever calls wrote it.
C23_IntoInnerReturnsContent ==
    last.op = "into_inner" =>
        /\ last.ret = last.old[last.a].inner
        /\ last.a \in gone

\* into_inner was called on a cell that held a value other than the default
C23_Witness ==
    /\ last.op = "into_inner"
    /\ last.ret # Default
    /\ last.ret = last.old[last.a].inner
    /\ last.a \in gone

\* C24: a write through the address returned by as_ptr, or through the
\* reference returned by get_mut, changes the storage get reads: a get()
\* right after it returns the written value (and no other cell is changed).
C24_WriteThroughPointer ==
    last.op \in {"as_ptr", "get_mut"} =>
        /\ Cell_get(cellmem[last.a]) = last.arg
        /\ \A c \in CellIds \ {last.a} : cellmem[c] = last.old[c]

\* a write through as_ptr has changed the content of its cell
C24_Witness ==
    /\ last.op = "as_ptr"
    /\ last.old[last.a].inner # last.arg
    /\ Cell_get(cellmem[last.a]) = last.arg

\* C25: after one set_value on a new tracker with a value of at least 75%
\* and below 90% of max (80 of 100), sent_messages of the mock messenger
\* holds exactly the 75% warning, whichever of the two MockMessenger
\* structs is used.
C25_MockHoldsWarning ==
    (/\ Len(setlog) = 1
     /\ tracker.max > 0
     /\ 4 * setlog[1].value >= 3 * tracker.max
     /\ 10 * setlog[1].value < 9 * tracker.max)
    => mock.sent_messages = <<Warning>>

\* C28: every set_value call stores the value and sends at most one
\* message, the one of the highest threshold value/max reaches: the error
\* from 1, the urgent warning from 0.9, the warning from 0.75, none below.
C28_OneMessageByThreshold ==
    /\ setlog # <<>> => tracker.value = setlog[Len(setlog)].value
    /\ \A i \in DOMAIN setlog :
         LET v == setlog[i].value
             m == tracker.max
             sends == setlog[i].sends
         IN  /\ Len(sends) <= 1
             /\ m > 0 =>
                  /\ v >= m => sends = <<Error>>
                  /\ (10 * v >= 9 * m /\ v < m) => sends = <<Urgent>>
                  /\ (4 * v >= 3 * m /\ 10 * v < 9 * m) => sends = <<Warning>>
                  /\ 4 * v < 3 * m => sends = <<>>

\* a tracker was set to a value in the 75% band and then to one in the 90%
\* band, and stores the second
C28_Witness ==
    /\ Len(setlog) = 2
    /\ tracker.max > 0
    /\ setlog[1].sends = <<Warning>>
    /\ setlog[2].sends = <<Urgent>>
    /\ tracker.value = setlog[2].value

\* the value of node n is destroyed in this step
Destroyed(n) == heap[n].st = "live" /\ heap'[n].st # "live"

\* C26: the step that destroys the value of a node drops the handles the
\* value holds: the strong count of its next node and the weak count of its
\* head node go down by one in the same step, and a next node owned by that
\* handle alone is destroyed in the same step too, so that dropping the head
\* of a chain of solely-owned nodes destroys the whole chain.
C26_DestructionCascades ==
    [][\A n \in Nodes :
        Destroyed(n) =>
            /\ heap[n].next # None =>
                 /\ heap'[heap[n].next].strong = heap[heap[n].next].strong - 1
                 /\ heap[heap[n].next].strong = 1 => Destroyed(heap[n].next)
            /\ heap[n].head # None =>
                 heap'[heap[n].head].weak = heap[heap[n].head].weak - 1]_vars

\* the chain c --> b --> a without a weak edge, all of its values destroyed
\* and all of its blocks freed
C26_Witness ==
    /\ NoLocals
    /\ heap["c"].next = "b" /\ heap["b"].next = "a"
    /\ heap["a"].next = None /\ heap["a"].head = None
    /\ \A n \in Nodes : heap[n].st = "freed"

\* the last call on cell c before call i (a borrow has at least the new)
Prev(i, c) == CHOOSE j \in Before(i, c) : \A k \in Before(i, c) : k <= j

=============================================================================
